---- MODULE Spec2Model ----
(***************************************************************************)
(* PlaneCaldav (CalPlaneBot): one-way synchronisation of Plane issues to   *)
(* CalDAV events.  The model follows app/services/sync_service.py,         *)
(* scheduler_service.py, webhook_handler.py and caldav_service.py.         *)
(*                                                                         *)
(* The program is one asyncio event loop: the tasks (the two scheduled     *)
(* jobs, the manual trigger, a notification handler) interleave only at    *)
(* an await of a collaborator call.  A task's pc names the collaborator    *)
(* call it is suspended in; one action is the outcome of that call plus    *)
(* all the code that runs up to the next await.                            *)
(***************************************************************************)
EXTENDS Integers, Sequences, FiniteSets, TLC

\* ------------------------------------------------------------- bounds
MaxCalendars == 3
MaxTrackerChanges == 1
MaxClock == 1

\* the default lookback of _load_last_sync_time, in hours (the clock's unit)
LookbackHours == 24

\* ------------------------------------------------------------- values
ProjectIds == {"p1", "p2"}
IssueIds == {"i1", "i2"}
ProjectNames == {<<"W", "e", "b">>, <<"W", "E", "B">>}
None == "None"
\* an absent optional value, and a present one
Absent == <<>>
Some(v) == <<v>>
ValueOf(opt) == opt[1]

SyncJob == "sync_job"
CleanupJob == "cleanup_job"
Manual == "manual_sync"
Webhook == "webhook"
\* a caller of sync_issue_to_calendar that chooses use_cache itself
Caller == "caller"
PassTasks == {SyncJob, CleanupJob, Manual}
Tasks == PassTasks \cup {Webhook, Caller}

\* str.lower() on one character and on a string (a sequence of characters)
LowerChar(c) ==
    CASE c = "W" -> "w"
      [] c = "E" -> "e"
      [] c = "B" -> "b"
      [] c = "P" -> "p"
      [] OTHER -> c

Lower(s) == [n \in 1..Len(s) |-> LowerChar(s[n])]

\* f"Plane: {project.name}"
ExpectedCalendarName(project) == <<"P", "l", "a", "n", "e", ":", " ">> \o project.name

\* faulty variant: the identifier leaves the issue id out
UidWithoutId(issueId) == <<"plane-issue-", "", "@", "calplanebot">>

\* f"plane-issue-{issue.id}@{settings.app_name.lower()}", the parts kept apart;
\* uid in plane_issue_to_caldav_event
EventUid(issueId) == <<"plane-issue-", issueId, "@", "calplanebot">>

\* the same expression where it is written again: event_uid in
\* sync_issue_to_calendar, uid in the delete diff of sync_project_issues and
\* sync_project_issues_with_cleanup, event_uid in _process_issue_webhook
IssueEventUid(issueId) == <<"plane-issue-", issueId, "@", "calplanebot">>
CurrentIssueUid(issueId) == <<"plane-issue-", issueId, "@", "calplanebot">>
WebhookEventUid(issueId) == <<"plane-issue-", issueId, "@", "calplanebot">>

\* an event on a calendar that this system did not create
ForeignUid == <<"holiday", "@", "elsewhere">>

Uids == {EventUid(n) : n \in IssueIds} \cup {ForeignUid}

CalendarUrls == 1..MaxCalendars

VARIABLES
    trackerProjects,    \* Plane: the projects get_projects returns, in order
    trackerIssues,      \* Plane: the issues, issue id -> [project, due]
    trackerChanges,     \* how many times the tracker data changed
    serverCalendars,    \* CalDAV: the calendars principal.calendars() lists
    calendarEvents,     \* CalDAV: calendar url -> the uids of its events
    project_mappings,   \* SyncService.project_mappings (a dict, insertion order)
    event_mappings,     \* SyncService.event_mappings (its keys)
    events_cache,       \* SyncService._events_cache
    sync_in_progress,   \* SyncService._sync_in_progress
    webhook_secret,     \* settings.plane_webhook_secret, or None
    last_sync_time,     \* SchedulerService._last_sync_time
    state_file,         \* the contents of scheduler_state.json
    now,                \* the wall clock
    pc,                 \* per task: the await it is suspended in, or "idle"
    local,              \* per task: the local variables of its frames
    result,             \* what the run that ended in the last step returned or raised
    call,               \* one CalDAVService call seen attempt by attempt
    mapped              \* one call of plane_issue_to_caldav_event: the issue, the result

vars == <<trackerProjects, trackerIssues, trackerChanges, serverCalendars,
          calendarEvents, project_mappings, event_mappings, events_cache,
          sync_in_progress, webhook_secret, last_sync_time, state_file, now,
          pc, local, result, call, mapped>>

trackerVars == <<trackerProjects, trackerIssues, trackerChanges>>
watermarkVars == <<last_sync_time, state_file>>

\* ------------------------------------------------------------- helpers
Range(s) == {s[n] : n \in 1..Len(s)}

\* dict.get / dict[key] = value on project_mappings, a sequence of
\* [project, calendar, last_sync, events_created] in insertion order
MappingIndex(maps, pid) ==
    IF \E n \in 1..Len(maps) : maps[n].project = pid
    THEN CHOOSE n \in 1..Len(maps) : maps[n].project = pid
    ELSE 0

NewMapping(pid, url) ==
    [project |-> pid, calendar |-> url, last_sync |-> Absent, events_created |-> 0]

MappingSet(maps, pid, url) ==
    IF MappingIndex(maps, pid) = 0
    THEN Append(maps, NewMapping(pid, url))
    ELSE [maps EXCEPT ![MappingIndex(maps, pid)] = NewMapping(pid, url)]

\* the calendar url that stands for "no calendar" (None)
NoCalendar == 0

get_calendar_for_project(pid) ==
    IF MappingIndex(project_mappings, pid) = 0
    THEN NoCalendar
    ELSE project_mappings[MappingIndex(project_mappings, pid)].calendar

\* _events_cache is a dict: calendar url -> the uids of its cached events
EmptyCache == [u \in {} |-> {}]

\* faulty variant: the cache is never consulted
NeverCached(cache, url) == FALSE

\* calendar_url in self._events_cache
IsCached(cache, url) == url \in DOMAIN cache

CachePut(cache, url, uids) ==
    [u \in DOMAIN cache \cup {url} |-> IF u = url THEN uids ELSE cache[u]]

\* faulty variant: the cache entry is left as it was after a write
InvalidateNothing(cache, url, uid, isNew) == cache

\* _invalidate_event_in_cache(calendar_url, event_uid, new_event)
InvalidateEventInCache(cache, url, uid, isNew) ==
    IF ~IsCached(cache, url)
    THEN cache
    ELSE IF isNew
         THEN [cache EXCEPT ![url] = @ \cup {uid}]
         ELSE [cache EXCEPT ![url] = @ \ {uid}]

\* the locals of a task that is not running; `failed` records that, for the
\* project being reconciled, a delete met an error other than "not found" and
\* the error was logged or passed over; `listed` is the event list the server
\* has read for a get_calendar_events whose response has not been processed yet
NoLocal ==
    [entry |-> None, projects |-> <<>>, calendars |-> <<>>, used |-> {},
     i |-> 0, saved |-> <<>>, j |-> 0, calendar |-> NoCalendar, issues |-> <<>>,
     to_delete |-> {}, deleted |-> 0, k |-> 0, op |-> None, failed |-> FALSE,
     use_cache |-> TRUE, status |-> None, listed |-> Absent]

\* no CalDAVService call is being looked at
NoCall ==
    [op |-> None, calendar |-> NoCalendar, uid |-> Absent, attempts |-> 0,
     last |-> None, status |-> None]

\* no run ended in the last step
NoResult == [task |-> None, status |-> None, cause |-> None]

\* ------------------------------------------------------------- Init
\* the project lists the tracker may report
Project(pid, name) == [id |-> pid, name |-> name]

ProjectLists ==
    {<<>>}
    \cup {<<Project(a, n)>> : a \in ProjectIds, n \in ProjectNames}
    \cup {<<Project(a, n), Project(b, m)>> :
            a \in ProjectIds, b \in ProjectIds, n \in ProjectNames, m \in ProjectNames}

DistinctIds(list) == \A n, m \in 1..Len(list) : list[n].id = list[m].id => n = m

\* an issue of the tracker: its project, whether target_date is set, and completed_at
Issue(pid, due) ==
    [project |-> pid, due |-> due, completed_at |-> Absent, start_date |-> Absent]

CompletedIssue(pid, due, completed_at) ==
    [project |-> pid, due |-> due, completed_at |-> completed_at, start_date |-> Absent]

\* an issue with a target_date and a start_date
StartedIssue(pid, start_date) == [Issue(pid, TRUE) EXCEPT !.start_date = start_date]

IssueValues == {Issue(a, d) : a \in ProjectIds, d \in BOOLEAN}

Calendar(url, name, inbox) == [url |-> url, name |-> name, inbox |-> inbox]

\* ------------------------------------------------------------- plane_issue_to_caldav_event
MaxDay == 2
MaxAssignees == 3

\* a datetime: its calendar day, its hour of the day, and whether it has a tzinfo
DateTime(day, hour, aware) == [day |-> day, hour |-> hour, aware |-> aware]

DateTimes == [day : 1..MaxDay, hour : {0, 12}, aware : BOOLEAN]

OptionalDateTimes == {Absent} \cup {Some(d) : d \in DateTimes}

\* PlaneUser.email: None, the empty string, or an address
Emails == {None, "", "a@example.org", "b@example.org"}

SeqsUpTo(S, n) == UNION {[1..m -> S] : m \in 0..n}

\* the fields of PlaneIssue that plane_issue_to_caldav_event reads for the
\* event's identity, dates, status, categories and attendees
PlaneIssues ==
    [id : IssueIds, start_date : OptionalDateTimes, target_date : OptionalDateTimes,
     completed_at : OptionalDateTimes, priority : {None, "high"},
     assignees : SeqsUpTo(Emails, MaxAssignees)]

\* datetime.combine(d, datetime.min.time()): time of day and tzinfo of d are ignored
Midnight(d) == DateTime(d.day, 0, FALSE)

\* a < b on two datetimes raises TypeError when exactly one has a tzinfo
Comparable(a, b) == a.aware = b.aware

Before(a, b) == a.day < b.day \/ (a.day = b.day /\ a.hour < b.hour)

\* faulty variant: completed only when the completion instant is not after the due date
CompletedByDueDate(issue) ==
    /\ issue.completed_at # Absent
    /\ issue.target_date # Absent
    /\ ~Before(ValueOf(issue.target_date), ValueOf(issue.completed_at))

\* plane_service.is_issue_completed
is_issue_completed(issue) == issue.completed_at # Absent

\* faulty variant: one address per assignee, deduplicated
AttendeesDeduplicated(assignees) ==
    LET kept == {n \in 1..Len(assignees) :
                    /\ assignees[n] \notin {None, ""}
                    /\ \A m \in 1..(n - 1) : assignees[m] # assignees[n]}
        f[k \in 0..Len(assignees)] ==
            IF k = 0 THEN <<>>
            ELSE IF k \in kept THEN Append(f[k - 1], assignees[k]) ELSE f[k - 1]
    IN  f[Len(assignees)]

\* [assignee.email for assignee in issue.assignees if assignee.email]
Attendees(assignees) == SelectSeq(assignees, LAMBDA e : e \notin {None, ""})

\* categories: "Completed", then the priority (labels are left out)
Categories(issue) ==
    (IF is_issue_completed(issue) THEN <<"Completed">> ELSE <<>>)
    \o (IF issue.priority # None THEN <<"Priority: high">> ELSE <<>>)

\* no CalDAVEvent: the value of an outcome that is not an event
NoEvent ==
    [kind |-> "None", uid |-> Absent, start |-> Absent, end |-> Absent,
     all_day |-> FALSE, status |-> None, attendees |-> <<>>, categories |-> <<>>]

\* the outcome of plane_issue_to_caldav_event: None, a CalDAVEvent, or the
\* exception that leaves the method
plane_issue_to_caldav_event(issue) ==
    IF issue.target_date = Absent
    THEN NoEvent
    ELSE LET target_date == ValueOf(issue.target_date)
             start_set == issue.start_date # Absent
         IN  IF start_set /\ ~Comparable(ValueOf(issue.start_date), target_date)
             THEN [NoEvent EXCEPT !.kind = "TypeError"]
             ELSE [kind |-> "event",
                   uid |-> EventUid(issue.id),
                   start |-> IF start_set /\ Before(ValueOf(issue.start_date), target_date)
                             THEN Some(Midnight(ValueOf(issue.start_date)))
                             ELSE Some(Midnight(target_date)),
                   end |-> Some(Midnight(target_date)),
                   all_day |-> TRUE,
                   status |-> IF is_issue_completed(issue) THEN "CANCELLED"
                              ELSE "CONFIRMED",
                   attendees |-> Attendees(issue.assignees),
                   categories |-> Categories(issue)]

\* no call of plane_issue_to_caldav_event is being looked at
NotCalled == [NoEvent EXCEPT !.kind = "not called"]

NoIssue ==
    [id |-> None, start_date |-> Absent, target_date |-> Absent, completed_at |-> Absent,
     priority |-> None, assignees |-> <<>>]

NoMapped == [issue |-> NoIssue, event |-> NotCalled]

\* _load_last_sync_time: the saved instant, or now - 24 hours
LoadLastSyncTime(file, clock) ==
    IF file = Absent THEN clock - LookbackHours ELSE ValueOf(file)

\* The process has just been constructed: SyncService.__init__ and
\* SchedulerService.__init__ (which loads the watermark) have run.
InitService ==
    /\ project_mappings = <<>>
    /\ event_mappings = {}
    /\ events_cache = EmptyCache
    /\ sync_in_progress = FALSE
    /\ now = 0
    /\ state_file \in {Absent, Some(0)}
    /\ last_sync_time = LoadLastSyncTime(state_file, now)
    /\ pc = [t \in Tasks |-> "idle"]
    /\ local = [t \in Tasks |-> NoLocal]
    /\ result = NoResult
    /\ call = NoCall
    /\ trackerChanges = 0

\* the state after construction: no call of the mapper is being looked at
InitProgram ==
    /\ InitService
    /\ mapped = NoMapped

Web == <<"W", "e", "b">>
WEB == <<"W", "E", "B">>

\* The calendar server holds what an earlier run of the process may have left:
\* nothing, or the first project's calendar, empty or with events.
InitServer ==
    \E prior \in BOOLEAN :
       /\ serverCalendars =
            IF prior
            THEN <<Calendar(1, ExpectedCalendarName(trackerProjects[1]), FALSE)>>
            ELSE <<>>
       /\ calendarEvents \in
            {[u \in CalendarUrls |-> IF u = 1 /\ prior THEN e ELSE {}] :
                 e \in {{}, {EventUid("i2"), ForeignUid}}}

\* two issues in the first project: one with a target_date, one without
InitIssues ==
    trackerIssues = [n \in IssueIds |-> Issue("p1", n = "i1")]

\* two projects whose names differ only in case
Init ==
    /\ InitProgram
    /\ webhook_secret = None
    /\ trackerProjects = <<Project("p1", Web), Project("p2", WEB)>>
    /\ InitIssues
    /\ InitServer

\* ------------------------------------------------------------- the end of a run
\* faulty variant: the cache is not cleared
KeepEventsCache(cache) == cache

\* _clear_events_cache
ClearEventsCache(cache) == EmptyCache

\* the finally block of sync_all_projects and sync_updated_issues
Finally(cache) ==
    /\ events_cache' = ClearEventsCache(cache)
    /\ sync_in_progress' = FALSE

\* _save_last_sync_time: the write may fail, which is logged and swallowed
SaveLastSyncTime(t) == state_file' \in {Some(t), state_file}

\* faulty variant: the watermark is written in a finally clause, whatever the outcome
SyncJobEpilogueAlways(raised) ==
    /\ last_sync_time' = now
    /\ SaveLastSyncTime(now)

\* _sync_job after sync_updated_issues returned or raised
SyncJobEpilogue(raised) ==
    IF raised
    THEN UNCHANGED watermarkVars
    ELSE /\ last_sync_time' = now
         /\ SaveLastSyncTime(now)

\* what the caller of the pass does with its outcome: _sync_job, _cleanup_job
\* and trigger_manual_sync all catch Exception
CallerEpilogue(t, cause) ==
    /\ result' = [task |-> t,
                  status |-> IF cause \in {None, "busy"} THEN "success" ELSE "error",
                  cause |-> cause]
    /\ IF t = SyncJob
       THEN SyncJobEpilogue(cause \notin {None, "busy"})
       ELSE UNCHANGED watermarkVars

\* faulty variant: the lock is released at the end of the try body, not in a finally
EndPassReleaseOnSuccess(t, cause, cache, maps) ==
    /\ events_cache' = ClearEventsCache(cache)
    /\ sync_in_progress' = (cause # None)
    /\ project_mappings' = maps
    /\ pc' = [pc EXCEPT ![t] = "idle"]
    /\ local' = [local EXCEPT ![t] = NoLocal]
    /\ CallerEpilogue(t, cause)

\* the pass of task t ends: raised with `cause`, or completed (cause = None)
EndPass(t, cause, cache, maps) ==
    /\ Finally(cache)
    /\ project_mappings' = maps
    /\ pc' = [pc EXCEPT ![t] = "idle"]
    /\ local' = [local EXCEPT ![t] = NoLocal]
    /\ CallerEpilogue(t, cause)

\* task t suspends in the collaborator call p
Suspend(t, p, l, cache, maps) ==
    /\ pc' = [pc EXCEPT ![t] = p]
    /\ local' = [local EXCEPT ![t] = l]
    /\ events_cache' = cache
    /\ project_mappings' = maps
    /\ result' = NoResult
    /\ UNCHANGED <<sync_in_progress, watermarkVars>>

\* faulty variant: only the signature check returns an error result, every
\* other exception leaves process_webhook
WebhookReturnUncaught(t, cause, cache) ==
    /\ pc' = [pc EXCEPT ![t] = "idle"]
    /\ local' = [local EXCEPT ![t] = NoLocal]
    /\ result' = [task |-> t,
                  status |-> IF cause = None THEN "success"
                             ELSE IF cause = "signature" THEN "error" ELSE "raised",
                  cause |-> cause]
    /\ events_cache' = cache
    /\ UNCHANGED <<project_mappings, sync_in_progress, watermarkVars>>

\* process_webhook returns its structured result
WebhookReturn(t, cause, cache) ==
    /\ pc' = [pc EXCEPT ![t] = "idle"]
    /\ local' = [local EXCEPT ![t] = NoLocal]
    /\ result' = [task |-> t,
                  status |-> IF cause = None THEN "success" ELSE "error",
                  cause |-> cause]
    /\ events_cache' = cache
    /\ UNCHANGED <<project_mappings, sync_in_progress, watermarkVars>>

\* sync_issue_to_calendar returns to, or raises into, a caller of its own
CallerReturn(t, cause, cache) ==
    /\ pc' = [pc EXCEPT ![t] = "idle"]
    /\ local' = [local EXCEPT ![t] = NoLocal]
    /\ result' = [task |-> t,
                  status |-> IF cause = None THEN "returned" ELSE "raised",
                  cause |-> cause]
    /\ events_cache' = cache
    /\ UNCHANGED <<project_mappings, sync_in_progress, watermarkVars>>

\* ------------------------------------------------------------- reconcile: control flow
\* the issues get_project_issues returns for a project, in id order
IssueOrder == <<"i1", "i2">>

IssuesOf(pid) ==
    LET listed == SelectSeq(IssueOrder,
                            LAMBDA n : n \in DOMAIN trackerIssues
                                       /\ trackerIssues[n].project = pid)
    IN  [n \in 1..Len(listed) |-> [id |-> listed[n], issue |-> trackerIssues[listed[n]]]]

\* faulty variant: an event is built for every issue
AlwaysHasEvent(item) == TRUE

\* the PlaneIssue of an item of the pass: a target_date when it has one, its
\* start_date, no assignees
AsPlaneIssue(item) ==
    [id |-> item.id, start_date |-> item.issue.start_date,
     target_date |-> IF item.issue.due THEN Some(DateTime(1, 0, FALSE)) ELSE Absent,
     completed_at |-> item.issue.completed_at, priority |-> None, assignees |-> <<>>]

\* event = self.plane_issue_to_caldav_event(issue); `if event is None`
HasEvent(item) == plane_issue_to_caldav_event(AsPlaneIssue(item)).kind # "None"

\* faulty variant: the existence check is dropped, every write is a create
SyncIssueEntryAlwaysCreate(t, l, k, cache, maps) ==
    LET item == l.issues[k]
        lk == [l EXCEPT !.k = k, !.op = None]
    IN  IF ~HasEvent(item)
        THEN Suspend(t, "delete_no_target_date", lk, cache, maps)
        ELSE Suspend(t, "write_event", [lk EXCEPT !.op = "create"], cache, maps)

\* faulty variant: the lookup never finds the event
LookupFindsNothing(cache, url, uid) == FALSE

\* existing_event = events_cache.get(event.uid), on the cache of the calendar
CachedLookup(cache, url, uid) == uid \in cache[url]

\* existing_event = next((e for e in existing_events if e.uid == event.uid), None)
DirectLookup(existing_events, uid) == uid \in existing_events

\* faulty variant: the branches are exchanged
WriteOperationExchanged(existing_event) == IF existing_event THEN "create" ELSE "update"

\* `if existing_event`: update, else create
WriteOperation(existing_event) == IF existing_event THEN "update" ELSE "create"

\* plane_issue_to_caldav_event raised inside sync_issue_to_calendar, which
\* logs and re-raises: the pass has no handler around the call, process_webhook
\* turns the exception into an error result
MapperRaised(t, cache, maps) ==
    IF t \in PassTasks
    THEN EndPass(t, "mapper", cache, maps)
    ELSE IF t = Webhook
    THEN WebhookReturn(t, "sync", cache)
    ELSE CallerReturn(t, "sync", cache)

\* sync_issue_to_calendar up to its first await, for item k of l.issues
SyncIssueEntry(t, l, k, cache, maps) ==
    LET item == l.issues[k]
        event == plane_issue_to_caldav_event(AsPlaneIssue(item))
        lk == [l EXCEPT !.k = k, !.op = None, !.status = event.status]
    IN  IF event.kind = "TypeError"
        THEN MapperRaised(t, cache, maps)
        ELSE IF ~HasEvent(item)
        THEN Suspend(t, "delete_no_target_date", lk, cache, maps)
        ELSE IF ~l.use_cache
             THEN Suspend(t, "direct_get_calendar_events", lk, cache, maps)
        ELSE IF ~IsCached(cache, l.calendar)
             THEN Suspend(t, "item_get_calendar_events", lk, cache, maps)
             ELSE Suspend(t, "write_event",
                          [lk EXCEPT !.op = WriteOperation(
                               CachedLookup(cache, l.calendar, EventUid(item.id)))],
                          cache, maps)

\* the project loop of the pass, from index j of the registry
ProceedProjects(t, l, j, cache, maps) ==
    IF j <= Len(maps)
    THEN Suspend(t, "get_project_issues",
                 [l EXCEPT !.j = j, !.calendar = maps[j].calendar, !.issues = <<>>,
                           !.to_delete = {}, !.deleted = 0, !.k = 0, !.op = None,
                           !.failed = FALSE],
                 cache, maps)
    ELSE EndPass(t, None, cache, maps)

\* the issue loop of sync_project_issues(_with_cleanup), from index k; after the
\* last issue the mapping's last_sync and events_created are updated
ProceedIssues(t, l, k, cache, maps) ==
    IF k <= Len(l.issues)
    THEN SyncIssueEntry(t, l, k, cache, maps)
    ELSE LET pid == maps[l.j].project
             at == MappingIndex(maps, pid)
             maps1 == [maps EXCEPT ![at].last_sync = Some(now),
                                   ![at].events_created = Len(l.issues)]
         IN  ProceedProjects(t, l, l.j + 1, cache, maps1)

\* faulty variant: no delete diff, the pass only writes the listed items
ProceedDeletesNone(t, l, cache, maps) ==
    ProceedIssues(t, [l EXCEPT !.to_delete = {}, !.deleted = 0], 1, cache, maps)

\* faulty variant: every cached event is deleted and recreated
ProceedDeletesAll(t, l, cache, maps) ==
    LET events_to_delete == cache[l.calendar]
        l1 == [l EXCEPT !.to_delete = events_to_delete, !.deleted = 0]
    IN  IF events_to_delete # {}
        THEN Suspend(t, "delete_event", l1, cache, maps)
        ELSE ProceedIssues(t, l1, 1, cache, maps)

\* after the event cache of the calendar is known: the delete diff
ProceedDeletes(t, l, cache, maps) ==
    LET current_issue_uids == {CurrentIssueUid(l.issues[n].id) : n \in 1..Len(l.issues)}
        events_to_delete == cache[l.calendar] \ current_issue_uids
        l1 == [l EXCEPT !.to_delete = events_to_delete, !.deleted = 0]
    IN  IF events_to_delete # {}
        THEN Suspend(t, "delete_event", l1, cache, maps)
        ELSE ProceedIssues(t, l1, 1, cache, maps)

\* sync_issue_to_calendar returned normally to its caller
AfterIssue(t, l, cache, maps) ==
    IF t \in PassTasks
    THEN ProceedIssues(t, l, l.k + 1, cache, maps)
    ELSE IF t = Webhook
    THEN WebhookReturn(t, None, cache)
    ELSE CallerReturn(t, None, cache)

\* sync_issue_to_calendar raised to its caller: the pass has no handler around
\* the call, process_webhook turns it into an error result
IssueRaised(t, l, cache, maps) ==
    IF t \in PassTasks
    THEN EndPass(t, "write", cache, maps)
    ELSE IF t = Webhook
    THEN WebhookReturn(t, "sync", cache)
    ELSE CallerReturn(t, "sync", cache)

\* ------------------------------------------------------------- entry points
\* faulty variant: the flag is not set
BusyFlagLeftClear == FALSE

\* self._sync_in_progress = True, before the try of both entry points
BusyFlagSet == TRUE

\* faulty variant: the flag is not tested
SyncNeverInProgress == FALSE

\* the test `if self._sync_in_progress` at the head of both entry points
SyncAlreadyInProgress == sync_in_progress

\* faulty variant: the test sits inside the try, so the skip runs the finally block
SkipCycleThroughFinally(t) ==
    /\ CallerEpilogue(t, "busy")
    /\ Finally(events_cache)
    /\ UNCHANGED <<pc, local, project_mappings>>

\* "Sync already in progress, skipping this cycle": return, and the caller goes on
SkipCycle(t) ==
    /\ CallerEpilogue(t, "busy")
    /\ UNCHANGED <<pc, local, events_cache, project_mappings, sync_in_progress>>

\* _sync_job -> sync_updated_issues(last_sync), up to the await of get_projects
StartSyncUpdatedIssues ==
    /\ pc[SyncJob] = "idle"
    /\ IF SyncAlreadyInProgress
       THEN SkipCycle(SyncJob)
       ELSE /\ sync_in_progress' = BusyFlagSet
            /\ pc' = [pc EXCEPT ![SyncJob] = "get_projects"]
            /\ local' = [local EXCEPT ![SyncJob] =
                           [NoLocal EXCEPT !.entry = "sync_updated_issues",
                                           !.saved = project_mappings]]
            /\ result' = NoResult
            /\ UNCHANGED <<events_cache, project_mappings, watermarkVars>>
    /\ UNCHANGED <<trackerVars, serverCalendars, calendarEvents, event_mappings,
                   webhook_secret, now, call, mapped>>

\* _cleanup_job / trigger_manual_sync -> sync_all_projects, up to its first await:
\* the registry is initialised only when it is empty
StartSyncAllProjects(t) ==
    /\ t \in {CleanupJob, Manual}
    /\ pc[t] = "idle"
    /\ IF SyncAlreadyInProgress
       THEN SkipCycle(t)
       ELSE /\ sync_in_progress' = BusyFlagSet
            /\ IF project_mappings = <<>>
               THEN /\ pc' = [pc EXCEPT ![t] = "get_projects"]
                    /\ local' = [local EXCEPT ![t] =
                                   [NoLocal EXCEPT !.entry = "sync_all_projects",
                                                   !.saved = project_mappings]]
               ELSE /\ pc' = [pc EXCEPT ![t] = "get_project_issues"]
                    /\ local' = [local EXCEPT ![t] =
                                   [NoLocal EXCEPT !.entry = "sync_all_projects",
                                                   !.j = 1,
                                                   !.calendar = project_mappings[1].calendar]]
            /\ result' = NoResult
            /\ UNCHANGED <<events_cache, project_mappings, watermarkVars>>
    /\ UNCHANGED <<trackerVars, serverCalendars, calendarEvents, event_mappings,
                   webhook_secret, now, call, mapped>>

\* ------------------------------------------------------------- initialize_project_mappings
\* the index of the first calendar not yet assigned whose name matches,
\* case-insensitively; 0 when there is none (calendar = None)
FindCalendar(calendars, used, name) ==
    LET hits == {n \in 1..Len(calendars) :
                    /\ calendars[n].url \notin used
                    /\ Lower(calendars[n].name) = Lower(name)}
    IN  IF hits = {} THEN 0 ELSE CHOOSE n \in hits : \A m \in hits : n <= m

\* the loop over the projects from index i, up to the first project that needs
\* create_calendar (an await) or to the end of the list
RECURSIVE MappingLoop(_, _, _, _, _)
MappingLoop(projects, calendars, i, used, maps) ==
    IF i > Len(projects)
    THEN [i |-> i, used |-> used, maps |-> maps]
    ELSE LET found == FindCalendar(calendars, used, ExpectedCalendarName(projects[i]))
         IN  IF found = 0
             THEN [i |-> i, used |-> used, maps |-> maps]
             ELSE MappingLoop(projects, calendars, i + 1,
                              used \cup {calendars[found].url},
                              MappingSet(maps, projects[i].id, calendars[found].url))

\* the mapping loop ran from index i: suspend in create_calendar, or the
\* initialisation is complete and the pass goes on to its projects
ProceedMappings(t, l, calendars, i, used, cache, maps) ==
    LET r == MappingLoop(l.projects, calendars, i, used, maps)
    IN  IF r.i <= Len(l.projects)
        THEN Suspend(t, "create_calendar",
                     [l EXCEPT !.calendars = calendars, !.i = r.i, !.used = r.used],
                     cache, r.maps)
        ELSE ProceedProjects(t, [l EXCEPT !.projects = <<>>, !.calendars = <<>>,
                                          !.i = 0, !.used = {}, !.saved = <<>>],
                             1, cache, r.maps)

\* plane_service.get_projects returns or raises
GetProjectsReturn(t) ==
    /\ pc[t] = "get_projects"
    /\ \/ Suspend(t, "get_calendars", [local[t] EXCEPT !.projects = trackerProjects],
                  events_cache, project_mappings)
       \/ EndPass(t, "init", events_cache, project_mappings)
    /\ UNCHANGED <<trackerVars, serverCalendars, calendarEvents, event_mappings,
                   webhook_secret, now, call, mapped>>

\* CalDAVService.get_calendars: the calendars of the server without the inbox
ListedCalendars == SelectSeq(serverCalendars, LAMBDA c : ~c.inbox)

\* the outcomes of get_calendars that are a list: the listing, or the empty list
\* it returns on HTTP 418 and on a connection/network error
GetCalendarsResults == {ListedCalendars, <<>>}

\* caldav_service.get_calendars returns or raises
GetCalendarsReturn(t) ==
    /\ pc[t] = "get_calendars"
    /\ \/ \E calendars \in GetCalendarsResults :
            ProceedMappings(t, local[t], calendars, 1, {}, events_cache, project_mappings)
       \/ EndPass(t, "init", events_cache, project_mappings)
    /\ UNCHANGED <<trackerVars, serverCalendars, calendarEvents, event_mappings,
                   webhook_secret, now, call, mapped>>

\* caldav_service.create_calendar returns the new calendar or raises
CreateCalendarReturn(t) ==
    /\ pc[t] = "create_calendar"
    /\ LET l == local[t]
           project == l.projects[l.i]
           url == Len(serverCalendars) + 1
       IN  \/ /\ url <= MaxCalendars
              /\ serverCalendars' =
                    Append(serverCalendars,
                           Calendar(url, ExpectedCalendarName(project), FALSE))
              /\ ProceedMappings(t, l, l.calendars, l.i + 1, l.used \cup {url},
                                 events_cache,
                                 MappingSet(project_mappings, project.id, url))
           \/ /\ EndPass(t, "init", events_cache, project_mappings)
              /\ UNCHANGED serverCalendars
    /\ UNCHANGED <<trackerVars, calendarEvents, event_mappings, webhook_secret, now, call, mapped>>

\* the list a get_calendar_events returns: what the server read when it served
\* the request, which is the calendar as it is when nothing happened since
ListedEvents(l) ==
    IF l.listed = Absent THEN calendarEvents[l.calendar] ELSE ValueOf(l.listed)

\* the server serves the get_calendar_events of task t; the call runs in a
\* worker thread (asyncio.to_thread) and the task resumes later
CalendarEventsListed(t) ==
    /\ pc[t] \in {"get_calendar_events", "item_get_calendar_events"}
    /\ local[t].listed = Absent
    /\ local' = [local EXCEPT ![t].listed = Some(calendarEvents[local[t].calendar])]
    /\ result' = NoResult
    /\ UNCHANGED <<trackerVars, serverCalendars, calendarEvents, project_mappings,
                   event_mappings, events_cache, sync_in_progress, webhook_secret,
                   watermarkVars, now, pc, call, mapped>>

\* faulty variant: the project whose fetch failed is skipped and the pass
\* goes on with the next one
FetchFailureSkipsProject(t, cache, maps) ==
    ProceedProjects(t, local[t], local[t].j + 1, cache, maps)

\* except Exception: log and raise, in the reconcile and again in the pass
FetchFailure(t, cache, maps) == EndPass(t, "fetch", cache, maps)

\* ------------------------------------------------------------- sync_project_issues(_with_cleanup)
\* plane_service.get_project_issues returns or raises; then _get_events_cache
GetProjectIssues(t, raised) ==
    /\ pc[t] = "get_project_issues"
    /\ LET l == [local[t] EXCEPT !.issues = IssuesOf(project_mappings[local[t].j].project)]
       IN  IF raised
           THEN FetchFailure(t, events_cache, project_mappings)
           ELSE IF ~IsCached(events_cache, l.calendar)
                THEN Suspend(t, "get_calendar_events", l, events_cache, project_mappings)
                ELSE ProceedDeletes(t, l, events_cache, project_mappings)
    /\ UNCHANGED <<trackerVars, serverCalendars, calendarEvents, event_mappings,
                   webhook_secret, now, call, mapped>>

GetProjectIssuesReturn(t) == \E raised \in BOOLEAN : GetProjectIssues(t, raised)

\* _get_events_cache: get_calendar_events returns the calendar's events, which
\* become the cache entry, or raises
GetCalendarEvents(t, raised) ==
    /\ pc[t] = "get_calendar_events"
    /\ LET l == [local[t] EXCEPT !.listed = Absent]
       IN  IF raised
           THEN FetchFailure(t, events_cache, project_mappings)
           ELSE ProceedDeletes(t, l,
                               CachePut(events_cache, l.calendar, ListedEvents(local[t])),
                               project_mappings)
    /\ UNCHANGED <<trackerVars, serverCalendars, calendarEvents, event_mappings,
                   webhook_secret, now, call, mapped>>

GetCalendarEventsReturn(t) == \E raised \in BOOLEAN : GetCalendarEvents(t, raised)

\* faulty variant: the count is taken before the call
DeletedCountAlways(deleted_count, raised) == deleted_count + 1

\* deleted_count += 1, the last statement of the try block
DeletedCount(deleted_count, raised) ==
    IF raised THEN deleted_count ELSE deleted_count + 1

\* the loop over events_to_delete: delete_event succeeds (the event is on the
\* calendar) or raises (not found, or a protocol error), which is logged
DeleteEventReturn(t) ==
    /\ pc[t] = "delete_event"
    /\ \E uid \in local[t].to_delete :
         LET l == local[t]
             rest == [l EXCEPT !.to_delete = @ \ {uid}]
             Continue(l1, cache) ==
                 IF l1.to_delete = {}
                 THEN ProceedIssues(t, l1, 1, cache, project_mappings)
                 ELSE Suspend(t, "delete_event", l1, cache, project_mappings)
         IN  \/ /\ uid \in calendarEvents[l.calendar]
                /\ calendarEvents' = [calendarEvents EXCEPT ![l.calendar] = @ \ {uid}]
                /\ Continue([rest EXCEPT !.deleted = DeletedCount(@, FALSE)],
                        InvalidateEventInCache(events_cache, l.calendar, uid, FALSE))
             \/ /\ UNCHANGED calendarEvents
                /\ Continue([rest EXCEPT !.deleted = DeletedCount(@, TRUE),
                                         !.failed = @ \/ uid \in calendarEvents[l.calendar]],
                            events_cache)
    /\ UNCHANGED <<trackerVars, serverCalendars, event_mappings, webhook_secret, now, call, mapped>>

\* ------------------------------------------------------------- sync_issue_to_calendar
\* no target_date: delete_event succeeds, or raises and `except Exception: pass`
\* swallows the exception; either way the call returns normally
DeleteNoTargetDateReturn(t) ==
    /\ pc[t] = "delete_no_target_date"
    /\ LET l == local[t]
           uid == IssueEventUid(l.issues[l.k].id)
       IN  \/ /\ uid \in calendarEvents[l.calendar]
              /\ calendarEvents' = [calendarEvents EXCEPT ![l.calendar] = @ \ {uid}]
              /\ AfterIssue(t, l, InvalidateEventInCache(events_cache, l.calendar, uid, FALSE),
                            project_mappings)
           \/ /\ UNCHANGED calendarEvents
              /\ AfterIssue(t, [l EXCEPT !.failed = @ \/ uid \in calendarEvents[l.calendar]],
                            events_cache, project_mappings)
    /\ UNCHANGED <<trackerVars, serverCalendars, event_mappings, webhook_secret, now, call, mapped>>

\* _get_events_cache inside sync_issue_to_calendar when the calendar is not cached
IssueGetCalendarEventsReturn(t) ==
    /\ pc[t] = "item_get_calendar_events"
    /\ LET l == [local[t] EXCEPT !.listed = Absent]
           uid == EventUid(l.issues[l.k].id)
           events == ListedEvents(local[t])
           cache == CachePut(events_cache, l.calendar, events)
       IN  \/ Suspend(t, "write_event",
                      [l EXCEPT !.op = WriteOperation(CachedLookup(cache, l.calendar, uid))],
                      cache, project_mappings)
           \/ IssueRaised(t, l, events_cache, project_mappings)
    /\ UNCHANGED <<trackerVars, serverCalendars, calendarEvents, event_mappings,
                   webhook_secret, now, call, mapped>>

\* use_cache=False: get_calendar_events returns and the list is scanned, or raises
DirectGetCalendarEventsReturn(t) ==
    /\ pc[t] = "direct_get_calendar_events"
    /\ LET l == local[t]
           uid == EventUid(l.issues[l.k].id)
           existing_events == calendarEvents[l.calendar]
       IN  \/ Suspend(t, "write_event",
                      [l EXCEPT !.op = WriteOperation(DirectLookup(existing_events, uid))],
                      events_cache, project_mappings)
           \/ IssueRaised(t, l, events_cache, project_mappings)
    /\ UNCHANGED <<trackerVars, serverCalendars, calendarEvents, event_mappings,
                   webhook_secret, now, call, mapped>>

\* update_event / create_event returns or raises; update_event succeeds only
\* when the event is on the calendar
WriteEventReturn(t) ==
    /\ pc[t] = "write_event"
    /\ LET l == local[t]
           item == l.issues[l.k]
           uid == EventUid(item.id)
       IN  \/ /\ l.op = "update" => uid \in calendarEvents[l.calendar]
              /\ calendarEvents' = [calendarEvents EXCEPT ![l.calendar] = @ \cup {uid}]
              /\ event_mappings' = event_mappings \cup {item.id}
              /\ AfterIssue(t, l, InvalidateEventInCache(events_cache, l.calendar, uid, TRUE),
                            project_mappings)
           \/ /\ UNCHANGED <<calendarEvents, event_mappings>>
              /\ IssueRaised(t, l, events_cache, project_mappings)
    /\ UNCHANGED <<trackerVars, serverCalendars, webhook_secret, now, call, mapped>>

\* ------------------------------------------------------------- notifications
\* the X-Plane-Signature header: absent, present and empty, the hex digest
\* verify_signature computes, or another value
Signatures == {None, "", "matching", "other"}

\* `if signature`: None and the empty string are falsy
Truthy(signature) == signature \notin {None, ""}

\* verify_signature: hmac.compare_digest(expected, signature), skipped without a secret
VerifySignature(signature) ==
    IF webhook_secret = None THEN TRUE ELSE signature = "matching"

\* a payload that fails PlaneWebhookPayload's validation, a payload for another
\* event type, and the issue payloads
Payloads ==
    {[event |-> "issue", action |-> "update", id |-> "i1", project |-> "p1",
      due |-> TRUE, wellformed |-> FALSE],
     [event |-> "project", action |-> "update", id |-> "i1", project |-> "p1",
      due |-> TRUE, wellformed |-> TRUE]}
    \cup [event : {"issue"}, action : {"create", "update", "delete"},
          id : IssueIds, project : {"p1"}, due : BOOLEAN, wellformed : {TRUE}]

\* faulty variant: the payload is used as a plain dict, without validation
ValidatesAnything(payload) == TRUE

\* PlaneWebhookPayload(**payload) returns; it raises ValidationError otherwise
Validates(payload) == payload.wellformed

\* process_webhook for one notification, up to the first await
ProcessWebhook(payload, signature) ==
    /\ pc[Webhook] = "idle"
    /\   LET calendar_url == get_calendar_for_project(payload.project)
             item == [id |-> payload.id, issue |-> Issue(payload.project, payload.due)]
         IN  IF Truthy(signature) /\ ~VerifySignature(signature)
             THEN WebhookReturn(Webhook, "signature", events_cache)
             ELSE IF ~Validates(payload)
             THEN WebhookReturn(Webhook, "validation", events_cache)
             ELSE IF payload.event # "issue" \/ calendar_url = NoCalendar
             THEN WebhookReturn(Webhook, None, events_cache)
             ELSE IF payload.action \in {"create", "update"}
             THEN SyncIssueEntry(Webhook,
                                 [NoLocal EXCEPT !.entry = "process_webhook",
                                                 !.calendar = calendar_url,
                                                 !.issues = <<item>>],
                                 1, events_cache, project_mappings)
             \* delete: sync_service has no attribute caldav_service; the
             \* AttributeError is caught and logged, nothing is deleted
             ELSE WebhookReturn(Webhook, None, events_cache)
    /\ UNCHANGED <<trackerVars, serverCalendars, calendarEvents, event_mappings,
                   webhook_secret, now, call, mapped>>

\* handle_plane_webhook: the background task of one POST /webhooks/plane
WebhookReceive ==
    \E payload \in Payloads, signature \in Signatures :
        ProcessWebhook(payload, signature)

\* ------------------------------------------------------------- environment
Tick ==
    /\ now < MaxClock
    /\ now' = now + 1
    /\ UNCHANGED <<trackerVars, serverCalendars, calendarEvents, project_mappings,
                   event_mappings, events_cache, sync_in_progress, webhook_secret,
                   watermarkVars, pc, local, call, mapped>>
    /\ result' = NoResult

\* another client of the CalDAV server adds or removes one event on a calendar
CalendarChange ==
    /\ \E url \in {c.url : c \in Range(serverCalendars)}, uid \in Uids :
          calendarEvents' = [calendarEvents EXCEPT ![url] =
                                IF uid \in @ THEN @ \ {uid} ELSE @ \cup {uid}]
    /\ UNCHANGED <<trackerVars, serverCalendars, project_mappings, event_mappings,
                   events_cache, sync_in_progress, webhook_secret, watermarkVars, now,
                   pc, local, call, mapped>>
    /\ result' = NoResult

\* the tracker's data changes: another project list, or one issue changes
TrackerChange ==
    /\ trackerChanges < MaxTrackerChanges
    /\ trackerChanges' = trackerChanges + 1
    /\ \/ /\ trackerProjects' \in {x \in ProjectLists : DistinctIds(x)} \ {trackerProjects}
          /\ UNCHANGED trackerIssues
       \/ /\ \E n \in IssueIds :
                \/ /\ n \in DOMAIN trackerIssues
                   /\ trackerIssues' = [m \in DOMAIN trackerIssues \ {n} |-> trackerIssues[m]]
                \/ \E v \in IssueValues :
                      /\ n \in DOMAIN trackerIssues => trackerIssues[n] # v
                      /\ trackerIssues' = [m \in DOMAIN trackerIssues \cup {n} |->
                                              IF m = n THEN v ELSE trackerIssues[m]]
          /\ UNCHANGED trackerProjects
    /\ UNCHANGED <<serverCalendars, calendarEvents, project_mappings, event_mappings,
                   events_cache, sync_in_progress, webhook_secret, watermarkVars, now,
                   pc, local, call, mapped>>
    /\ result' = NoResult

\* ------------------------------------------------------------- specifications
\* a task resumes from the collaborator call it is suspended in
PassStep(t) ==
    \/ GetProjectsReturn(t)
    \/ GetCalendarsReturn(t)
    \/ CreateCalendarReturn(t)
    \/ GetProjectIssuesReturn(t)
    \/ GetCalendarEventsReturn(t)
    \/ DeleteEventReturn(t)
    \/ DeleteNoTargetDateReturn(t)
    \/ WriteEventReturn(t)

\* The scheduled jobs and the manual trigger.
Next ==
    \/ StartSyncUpdatedIssues
    \/ \E t \in {CleanupJob, Manual} : StartSyncAllProjects(t)
    \/ \E t \in PassTasks : PassStep(t)
    \/ Tick

Spec == Init /\ [][Next]_vars

\* the two scheduled jobs alone; WF: a collaborator call that a job is
\* suspended in returns (or raises)
JobsNext ==
    \/ StartSyncUpdatedIssues
    \/ StartSyncAllProjects(CleanupJob)
    \/ \E t \in {SyncJob, CleanupJob} : PassStep(t)

FairSpec ==
    /\ Init
    /\ [][JobsNext]_vars
    /\ \A t \in {SyncJob, CleanupJob} : WF_vars(PassStep(t))

\* Notifications beside one scheduled job. The background task of a
\* notification runs on the same event loop as the jobs.
WebhookInit ==
    /\ InitProgram
    /\ state_file = Absent
    /\ webhook_secret \in {None, "secret"}
    /\ trackerProjects = <<Project("p1", Web), Project("p2", WEB)>>
    /\ InitIssues
    /\ InitServer

WebhookStep ==
    \/ IssueGetCalendarEventsReturn(Webhook)
    \/ DeleteNoTargetDateReturn(Webhook)
    \/ WriteEventReturn(Webhook)

WebhookNext ==
    \/ StartSyncAllProjects(CleanupJob)
    \/ PassStep(CleanupJob)
    \/ WebhookReceive
    \/ WebhookStep

WebhookSpec == WebhookInit /\ [][WebhookNext]_vars

\* Notifications beside one scheduled job, with the list calls of both seen in
\* two steps: served by the server, then resumed in the task.
InterleavedNext ==
    \/ StartSyncAllProjects(CleanupJob)
    \/ PassStep(CleanupJob)
    \/ WebhookReceive
    \/ WebhookStep
    \/ \E t \in {CleanupJob, Webhook} : CalendarEventsListed(t)

InterleavedInit == WebhookInit /\ webhook_secret = None

InterleavedSpec == InterleavedInit /\ [][InterleavedNext]_vars

\* sync_issue_to_calendar called on its own, with and without the cache, for a
\* calendar that other clients use as well
CallSyncIssue ==
    /\ pc[Caller] = "idle"
    /\ \E id \in IssueIds, due \in BOOLEAN, use_cache \in BOOLEAN,
          calendar_url \in {c.url : c \in Range(serverCalendars)} :
          SyncIssueEntry(Caller,
                         [NoLocal EXCEPT !.entry = "sync_issue_to_calendar",
                                         !.use_cache = use_cache,
                                         !.calendar = calendar_url,
                                         !.issues = <<[id |-> id, issue |-> Issue("p1", due)]>>],
                         1, events_cache, project_mappings)
    /\ UNCHANGED <<trackerVars, serverCalendars, calendarEvents, event_mappings,
                   webhook_secret, now, call, mapped>>

IssueStep(t) ==
    \/ IssueGetCalendarEventsReturn(t)
    \/ DirectGetCalendarEventsReturn(t)
    \/ DeleteNoTargetDateReturn(t)
    \/ WriteEventReturn(t)

ParityNext ==
    \/ CallSyncIssue
    \/ IssueStep(Caller)
    \/ CalendarChange

ParitySpec == Init /\ [][ParityNext]_vars

\* a sequence of per-item syncs, this process the calendar's only writer
ItemNext ==
    \/ CallSyncIssue
    \/ IssueStep(Caller)

ItemSpec == Init /\ [][ItemNext]_vars

\* The sync job while the tracker's projects and issues change.
RegistryInit ==
    /\ InitProgram
    /\ state_file = Absent
    /\ webhook_secret = None
    /\ trackerProjects = <<Project("p1", Web)>>
    /\ InitIssues
    /\ InitServer

RegistryNext ==
    \/ StartSyncUpdatedIssues
    \/ PassStep(SyncJob)
    \/ TrackerChange

RegistrySpec == RegistryInit /\ [][RegistryNext]_vars

\* ------------------------------------------------------------- claims
InPass(t) == pc[t] # "idle"

\* the last step ended a pass that had acquired the busy flag
PassEnded == result.task \in PassTasks /\ result.cause # "busy"

\* C1: at any instant at most one invocation of sync_all_projects or
\* sync_updated_issues is between acquiring the busy flag and releasing it.
C1_SingleFlight ==
    /\ \A a, b \in PassTasks : InPass(a) /\ InPass(b) => a = b
    /\ sync_in_progress <=> \E t \in PassTasks : InPass(t)

\* a trigger was skipped while another task's pass was in flight
C1_Witness ==
    /\ result.cause = "busy"
    /\ \E t \in PassTasks : InPass(t) /\ t # result.task

\* C2: an invocation that finds the busy flag set returns at once, makes no
\* collaborator call and leaves the flag, the cache, the registry, the calendars
\* and the running pass untouched.
C2_SkipChangesNothing ==
    [][result'.cause = "busy" =>
         UNCHANGED <<sync_in_progress, events_cache, project_mappings, event_mappings,
                     serverCalendars, calendarEvents, pc, local>>]_vars

\* a trigger was skipped while the running pass held a populated cache
C2_Witness ==
    /\ result.cause = "busy"
    /\ sync_in_progress
    /\ events_cache # EmptyCache

\* C3: every pass that acquired the busy flag releases it when it ends, on
\* success and on every exception; when collaborator calls return, the
\* coordinator always returns to idle.
C3_BusyLeadsToIdle == sync_in_progress ~> ~sync_in_progress

\* a pass ended by an exception and the flag is released
C3_Witness ==
    /\ PassEnded
    /\ result.status = "error"
    /\ ~sync_in_progress

\* C4: when a pass that acquired the busy flag ends, normally or by an
\* exception, the event cache holds no calendar.
C4_CacheClearedAtEndOfPass ==
    [][PassEnded' => events_cache' = EmptyCache]_vars

\* a pass ended by a write failure, after its cache had been filled
C4_Witness ==
    /\ PassEnded
    /\ result.cause = "write"
    /\ events_cache = EmptyCache

\* C6 (as claimed): a failed create or update of one item does not abort the
\* batch: a pass leaves a write only after the last item of the last project,
\* and without raising.
C6_ItemFailureDoesNotAbort ==
    [][\A t \in PassTasks :
         pc[t] = "write_event" /\ pc'[t] = "idle" =>
            /\ local[t].k = Len(local[t].issues)
            /\ local[t].j = Len(project_mappings)
            /\ result'.status = "success"]_vars

\* C10: a scheduled job never raises out of the job; when its pass fails the
\* watermark, in memory and on disk, is left as it was.
C10_FailedJobKeepsWatermark ==
    [][result'.task \in {SyncJob, CleanupJob} =>
         /\ result'.status \in {"success", "error"}
         /\ result'.status = "error" => UNCHANGED watermarkVars]_vars

\* the sync job's pass failed after the clock moved on: the watermark is old
C10_Witness ==
    /\ result.task = SyncJob
    /\ result.status = "error"
    /\ last_sync_time < now

\* C5 (as claimed): whenever no pass is in flight the event cache is empty,
\* also after per-item syncs triggered by notifications.
C5_CacheEmptyWhenIdle == ~sync_in_progress => events_cache = EmptyCache

\* the server calendars whose name is exactly the project's expected name
NamedFor(calendars, project) ==
    {n \in 1..Len(calendars) : calendars[n].name = ExpectedCalendarName(project)}

InInit(t) == pc[t] \in {"get_projects", "get_calendars", "create_calendar"}

\* C7 (as claimed): when initialize_project_mappings fails, the registry is
\* exactly what it was before the call.
C7_InitAllOrNothing ==
    [][\A t \in PassTasks :
         InInit(t) /\ result'.task = t /\ result'.cause = "init" =>
            project_mappings' = local[t].saved]_vars

\* C8 (as claimed): a project that has one calendar with its expected name on
\* the server still has exactly one after any step of any pass, whatever the
\* calendar listing returned.
C8_NoDuplicateCalendar ==
    [][\A n \in 1..Len(trackerProjects) :
         Cardinality(NamedFor(serverCalendars, trackerProjects[n])) = 1 =>
            Cardinality(NamedFor(serverCalendars', trackerProjects[n])) = 1]_vars

\* C9 (as claimed): when initialize_project_mappings has completed, no two
\* project ids of the registry are mapped to the same calendar.
C9_RegistryInjective ==
    [][\A t \in PassTasks :
         InInit(t) /\ ~InInit(t)' /\ result'.cause # "init" =>
            \A n, m \in 1..Len(project_mappings') :
               project_mappings'[n].calendar = project_mappings'[m].calendar => n = m]_vars

\* C11 (as claimed): the watermark, in memory and on disk, changes only in the
\* step that ends a sync job whose pass ran and completed; a sync job whose
\* call was skipped leaves it unchanged.
C11_WatermarkOnlyAfterCompletedPass ==
    [][watermarkVars' # watermarkVars =>
         result'.task = SyncJob /\ result'.cause = None]_vars

\* ------------------------------------------------------------- retried calls
\* @retry(stop=stop_after_attempt(3), retry=retry_if_exception_type(CalDAVError))
MaxAttempts == 3

RetriedOps == {"get_calendar_events", "create_event", "update_event", "delete_event"}

\* how one attempt of the method body can end, given the calendar's events:
\* "ok"; "not_found" (update_event and delete_event raise CalDAVError("Event ...
\* not found") when the uid is on no event); "dav_error" (a DAVError of the
\* caldav library, re-raised as CalDAVError); "other" (any other exception,
\* such as a validation error, which the method does not catch)
AttemptOutcomes(op, events, uid) ==
    {"dav_error", "other"}
    \cup IF op \in {"update_event", "delete_event"} /\ uid \notin events
         THEN {"not_found"}
         ELSE {"ok"}

\* faulty variant: only a DAVError is raised as the retried exception type
OnlyDavErrorIsCalDAVError(outcome) == outcome = "dav_error"

\* the exception the attempt raises is a CalDAVError
IsCalDAVError(outcome) == outcome \in {"dav_error", "not_found"}

\* tenacity after an attempt: return, re-raise, try again, or give up with RetryError
AfterAttempt(attempts, outcome) ==
    IF outcome = "ok" THEN "returned"
    ELSE IF ~IsCalDAVError(outcome) THEN "raised"
    ELSE IF attempts < MaxAttempts THEN "attempting"
    ELSE "RetryError"

\* what a successful attempt does to the calendar's events
AttemptEffect(op, events, uid) ==
    CASE op = "create_event" -> events \cup {uid}
      [] op = "delete_event" -> events \ {uid}
      [] OTHER -> events

\* a CalDAVService method is called for a calendar of the server
CallStart ==
    /\ call.status # "attempting"
    /\ \E op \in RetriedOps, url \in {c.url : c \in Range(serverCalendars)}, uid \in Uids :
          call' = [op |-> op, calendar |-> url, uid |-> uid, attempts |-> 0,
                   last |-> None, status |-> "attempting"]
    /\ result' = NoResult
    /\ UNCHANGED <<trackerVars, serverCalendars, calendarEvents, project_mappings,
                   event_mappings, events_cache, sync_in_progress, webhook_secret,
                   watermarkVars, now, pc, local, mapped>>

\* one attempt of the method body ends
CallAttempt ==
    /\ call.status = "attempting"
    /\ \E outcome \in AttemptOutcomes(call.op, calendarEvents[call.calendar], call.uid) :
          /\ call' = [call EXCEPT !.attempts = @ + 1,
                                  !.last = outcome,
                                  !.status = AfterAttempt(call.attempts + 1, outcome)]
          /\ calendarEvents' =
                IF outcome = "ok"
                THEN [calendarEvents EXCEPT ![call.calendar] =
                         AttemptEffect(call.op, @, call.uid)]
                ELSE calendarEvents
    /\ result' = NoResult
    /\ UNCHANGED <<trackerVars, serverCalendars, project_mappings, event_mappings,
                   events_cache, sync_in_progress, webhook_secret, watermarkVars, now,
                   pc, local, mapped>>

RetryNext == CallStart \/ CallAttempt

RetrySpec == Init /\ [][RetryNext]_vars

\* ------------------------------------------------------------- the mapper alone
\* an issue as PlaneIssue(**item) builds it is about to be mapped
MapperInit ==
    /\ InitService
    /\ state_file = Absent
    /\ webhook_secret = None
    /\ trackerProjects = <<Project("p1", Web)>>
    /\ InitIssues
    /\ serverCalendars = <<>>
    /\ calendarEvents = [u \in CalendarUrls |-> {}]
    /\ mapped \in {[issue |-> issue, event |-> NotCalled] : issue \in PlaneIssues}

\* plane_issue_to_caldav_event(issue) returns or raises
MapIssue ==
    /\ mapped.event = NotCalled
    /\ mapped.issue # NoIssue
    /\ mapped' = [mapped EXCEPT !.event = plane_issue_to_caldav_event(mapped.issue)]
    /\ result' = NoResult
    /\ UNCHANGED <<trackerVars, serverCalendars, calendarEvents, project_mappings,
                   event_mappings, events_cache, sync_in_progress, webhook_secret,
                   watermarkVars, now, pc, local, call>>

MapperSpec == MapperInit /\ [][MapIssue]_vars

\* ------------------------------------------------------------- scheduler_state.json
\* the latest hour of the wall clock in the state-file specification
MaxHour == 2

\* a naive datetime as datetime.now() returns it: whole hours since the first
\* instant looked at, and the sub-second part
Instant(hours, microsecond) == [hours |-> hours, microsecond |-> microsecond]

Instants == {Instant(h, m) : h \in 0..MaxHour, m \in {0, 500000}}

Later(a, b) ==
    \/ a.hours > b.hours
    \/ a.hours = b.hours /\ a.microsecond > b.microsecond

\* clock - timedelta(hours=n)
MinusHours(clock, n) == [clock EXCEPT !.hours = @ - n]

\* faulty variant: isoformat(timespec='seconds'), the sub-second part is dropped
isoformat_seconds(dt) == <<dt.hours>>

\* datetime.isoformat(): the text has no fractional part when microsecond is 0
isoformat(dt) ==
    IF dt.microsecond = 0 THEN <<dt.hours>> ELSE <<dt.hours, dt.microsecond>>

\* the texts datetime.fromisoformat accepts; anything else raises ValueError
IsIsoFormat(text) == Len(text) \in {1, 2}

\* datetime.fromisoformat(text), for a text it accepts
fromisoformat(text) ==
    Instant(text[1], IF Len(text) = 2 THEN text[2] ELSE 0)

\* what scheduler_state.json can hold: a JSON object with or without the key
\* last_sync_time, whose value may be no ISO text, or bytes that are no JSON
StateFileContent(json, has_key, sync_text, updated_text) ==
    [json |-> json, has_key |-> has_key, last_sync_time |-> sync_text,
     updated_at |-> updated_text]

\* a file cut short by a write that failed, or otherwise no JSON
NotJson == StateFileContent(FALSE, FALSE, <<>>, <<>>)

\* the object _save_last_sync_time dumps
SavedState(sync_time, clock) ==
    StateFileContent(TRUE, TRUE, isoformat(sync_time), isoformat(clock))

StateFiles ==
    {Absent, Some(NotJson),
     Some(StateFileContent(TRUE, FALSE, <<>>, <<>>)),
     Some(StateFileContent(TRUE, TRUE, <<>>, <<>>))}
    \cup {Some(SavedState(t, t)) : t \in Instants}

\* _load_last_sync_time on the file as it is: every exception is caught and
\* logged, and the default is returned
LoadStateFile(file, clock) ==
    IF file = Absent THEN MinusHours(clock, LookbackHours)
    ELSE LET data == ValueOf(file)
         IN  IF data.json /\ data.has_key /\ IsIsoFormat(data.last_sync_time)
             THEN fromisoformat(data.last_sync_time)
             ELSE MinusHours(clock, LookbackHours)

\* _save_last_sync_time: the file is rewritten; open() fails and the file is as
\* it was; or the write fails part-way and leaves a cut file. Exceptions are
\* logged, not raised.
SaveStateFile(file, sync_time, clock) ==
    {Some(SavedState(sync_time, clock)), file, Some(NotJson)}

\* A process that starts with whatever an earlier process left in the file.
StateFileInit ==
    /\ project_mappings = <<>>
    /\ event_mappings = {}
    /\ events_cache = EmptyCache
    /\ sync_in_progress = FALSE
    /\ pc = [t \in Tasks |-> "idle"]
    /\ local = [t \in Tasks |-> NoLocal]
    /\ result = NoResult
    /\ call = NoCall
    /\ mapped = NoMapped
    /\ trackerChanges = 0
    /\ webhook_secret = None
    /\ trackerProjects = <<Project("p1", Web)>>
    /\ InitIssues
    /\ serverCalendars = <<>>
    /\ calendarEvents = [u \in CalendarUrls |-> {}]
    /\ now \in Instants
    /\ state_file \in StateFiles
    /\ last_sync_time = LoadStateFile(state_file, now)

StateFileUnchanged ==
    UNCHANGED <<trackerVars, serverCalendars, calendarEvents, project_mappings,
                event_mappings, events_cache, sync_in_progress, webhook_secret,
                pc, local, result, call, mapped>>

\* SchedulerService.__init__ of the next process
ProcessStart ==
    /\ last_sync_time' = LoadStateFile(state_file, now)
    /\ UNCHANGED <<state_file, now>>
    /\ StateFileUnchanged

\* _sync_job after a pass that returned: the watermark is set and saved
WatermarkAdvance ==
    /\ last_sync_time' = now
    /\ state_file' \in SaveStateFile(state_file, now, now)
    /\ UNCHANGED now
    /\ StateFileUnchanged

\* _save_state_on_exit: a datetime is always truthy, so the watermark is saved
SaveStateOnExit ==
    /\ state_file' \in SaveStateFile(state_file, last_sync_time, now)
    /\ UNCHANGED <<last_sync_time, now>>
    /\ StateFileUnchanged

ClockAdvance ==
    /\ \E later \in Instants : Later(later, now) /\ now' = later
    /\ UNCHANGED <<last_sync_time, state_file>>
    /\ StateFileUnchanged

StateFileNext ==
    \/ ProcessStart
    \/ WatermarkAdvance
    \/ SaveStateOnExit
    \/ ClockAdvance

StateFileSpec == StateFileInit /\ [][StateFileNext]_vars

\* The cleanup job over a project whose items are completed or open: the first
\* item has a target_date, the second has none.
CompletedInit ==
    /\ InitProgram
    /\ state_file = Absent
    /\ webhook_secret = None
    /\ trackerProjects = <<Project("p1", Web)>>
    /\ \E c1 \in OptionalDateTimes, c2 \in {Absent, Some(DateTime(1, 12, TRUE))} :
          trackerIssues = [n \in IssueIds |->
                              IF n = "i1" THEN CompletedIssue("p1", TRUE, c1)
                              ELSE CompletedIssue("p1", FALSE, c2)]
    /\ InitServer

CompletedNext ==
    \/ StartSyncAllProjects(CleanupJob)
    \/ PassStep(CleanupJob)

CompletedSpec == CompletedInit /\ [][CompletedNext]_vars

\* A calendar left by an earlier run with events of items that are gone: the
\* project lists the first item only, or no item at all.
DeleteInit ==
    /\ InitProgram
    /\ webhook_secret = None
    /\ trackerProjects = <<Project("p1", Web)>>
    /\ \E listed \in SUBSET {"i1"}, due \in BOOLEAN :
          trackerIssues = [n \in listed |-> Issue("p1", due)]
    /\ serverCalendars = <<Calendar(1, ExpectedCalendarName(trackerProjects[1]), FALSE)>>
    /\ \E e \in SUBSET Uids :
          calendarEvents = [u \in CalendarUrls |-> IF u = 1 THEN e ELSE {}]

DeleteNext ==
    \/ StartSyncUpdatedIssues
    \/ StartSyncAllProjects(CleanupJob)
    \/ \E t \in {SyncJob, CleanupJob} : PassStep(t)

DeleteSpec == DeleteInit /\ [][DeleteNext]_vars

\* ------------------------------------------------------------- reconcile claims
\* the events a project's calendar should hold: one per listed item with a due date
ExpectedEvents(issues) ==
    {EventUid(issues[n].id) : n \in {m \in 1..Len(issues) : HasEvent(issues[m])}}

ItemUids(issues) == {EventUid(issues[n].id) : n \in 1..Len(issues)}

\* task t is in the reconcile of a project, its item list fetched
Reconciling(t) ==
    pc[t] \in {"get_calendar_events", "delete_event", "delete_no_target_date", "write_event"}

\* this step completes the reconcile of the project task t is in
Completes(t) ==
    /\ Reconciling(t)
    /\ \/ local'[t].j = local[t].j + 1
       \/ pc'[t] = "idle" /\ result'.task = t /\ result'.cause = None

\* the delete that task t was suspended in met an error in this step, and the
\* error was logged or passed over
StepFailed(t) ==
    LET l == local[t]
        was == calendarEvents[l.calendar]
    IN  /\ calendarEvents'[l.calendar] = was
        /\ \/ pc[t] = "delete_event" /\ l.to_delete \cap was # {}
           \/ pc[t] = "delete_no_target_date" /\ EventUid(l.issues[l.k].id) \in was

\* this step completes a project's reconcile in which no collaborator call failed
CleanCompletion(t) == Completes(t) /\ ~local[t].failed /\ ~StepFailed(t)

\* C12: a reconcile without failures leaves on the calendar exactly the events
\* of the listed items with a due date; a reconcile that starts from that state
\* with the same tracker data deletes nothing, creates nothing (every write is
\* an update) and leaves the calendar's events as they were.
C12_SecondRunChangesNothing ==
    [][\A t \in PassTasks :
         /\ CleanCompletion(t) =>
               calendarEvents'[local[t].calendar] = ExpectedEvents(local[t].issues)
         /\ ( /\ pc[t] \in {"delete_event", "delete_no_target_date", "write_event"}
              /\ calendarEvents[local[t].calendar] = ExpectedEvents(local[t].issues)
              /\ events_cache[local[t].calendar] = ExpectedEvents(local[t].issues) )
            => /\ calendarEvents' = calendarEvents
               /\ pc[t] # "delete_event"
               /\ pc[t] = "write_event" => local[t].op = "update"]_vars

\* the cleanup job is in a later run over a project it has reconciled before,
\* the calendar as a run leaves it, and the item resolves to an update
C12_Witness ==
    /\ pc[CleanupJob] = "write_event"
    /\ local[CleanupJob].op = "update"
    /\ project_mappings[local[CleanupJob].j].last_sync # Absent
    /\ calendarEvents[local[CleanupJob].calendar] = ExpectedEvents(local[CleanupJob].issues)

\* the events this step removed from the calendar task t reconciles
Removed(t) ==
    calendarEvents[local[t].calendar] \ calendarEvents'[local[t].calendar]

\* an event that matches a listed item with a due date is written by update
UpdatedInPlace(t) ==
    ( /\ pc[t] = "write_event"
      /\ EventUid(local[t].issues[local[t].k].id) \in calendarEvents[local[t].calendar] )
    => local[t].op = "update"

\* C13 (as claimed): reconcile deletes exactly the events whose uid is the uid
\* of no listed item, and an event that matches a listed item with a due date
\* is updated in place.
C13_DeletesExactlyUnlisted ==
    [][\A t \in PassTasks :
         Reconciling(t) =>
            /\ Removed(t) \cap ItemUids(local[t].issues) = {}
            /\ CleanCompletion(t) =>
                  calendarEvents'[local[t].calendar] \subseteq ItemUids(local[t].issues)
            /\ UpdatedInPlace(t)]_vars

\* C13 (amended): reconcile deletes exactly the events whose uid is not the uid
\* of a listed item with a due date (an event of a listed item without a due
\* date is deleted too), and an event that matches a listed item with a due
\* date is updated in place, never deleted.
C13_DeletesExactlyNotDue ==
    [][\A t \in PassTasks :
         Reconciling(t) =>
            /\ Removed(t) \cap ExpectedEvents(local[t].issues) = {}
            /\ CleanCompletion(t) =>
                  calendarEvents'[local[t].calendar] \subseteq ExpectedEvents(local[t].issues)
            /\ UpdatedInPlace(t)]_vars

\* a run has deleted the one event that matches no item and now updates, in
\* place, the event of an item with a due date
C13_Witness ==
    \E t \in PassTasks :
       /\ pc[t] = "write_event"
       /\ local[t].op = "update"
       /\ local[t].deleted = 1
       /\ ForeignUid \notin calendarEvents[local[t].calendar]
       /\ EventUid(local[t].issues[local[t].k].id) \in calendarEvents[local[t].calendar]

OrphanEvents(events, issues) ==
    {EventUid(n) : n \in IssueIds} \cap (events \ ItemUids(issues))

\* every incremental pass starts with initialize_project_mappings
StartsWithInitialization ==
    (pc[SyncJob] = "idle" /\ pc'[SyncJob] # "idle") => pc'[SyncJob] = "get_projects"

\* C15 (as claimed): an incremental pass re-initializes the registry and at
\* the end of each project's reconcile, when the pass goes on or completes, no
\* event of an item the tracker no longer lists is left on the calendar.
C15_DeletedItemRemovedByCompletedPass ==
    [][/\ StartsWithInitialization
       /\ Completes(SyncJob) =>
             OrphanEvents(calendarEvents'[local[SyncJob].calendar],
                          local[SyncJob].issues) = {}]_vars

\* C15 (amended): as above, for a reconcile in which no delete failed.
C15_DeletedItemRemovedByCleanPass ==
    [][/\ StartsWithInitialization
       /\ CleanCompletion(SyncJob) =>
             OrphanEvents(calendarEvents'[local[SyncJob].calendar],
                          local[SyncJob].issues) = {}]_vars

\* item i2 was deleted from the tracker and the incremental pass has removed
\* its event together with the foreign one
C15_Witness ==
    /\ "i2" \notin DOMAIN trackerIssues
    /\ Reconciling(SyncJob)
    /\ local[SyncJob].deleted = 2
    /\ EventUid("i2") \notin calendarEvents[local[SyncJob].calendar]

\* C16 (as claimed): a call is attempted at most three times, and another
\* attempt follows only a transient/protocol error: after a not-found outcome
\* of update_event or delete_event, or any other exception, the call ends.
C16_RetryOnlyProtocolErrors ==
    /\ call.attempts <= MaxAttempts
    /\ (call.status = "attempting" /\ call.attempts > 0) => call.last = "dav_error"

\* ------------------------------------------------------------- notification claims
\* C17: every run of process_webhook ends with a structured result whose
\* status is success or error; a rejected signature, a payload that fails
\* validation and a collaborator failure in the per-item sync give error.
C17_WebhookAlwaysReturnsResult ==
    [][result'.task = Webhook =>
         /\ pc'[Webhook] = "idle"
         /\ result'.status \in {"success", "error"}
         /\ result'.cause \in {"signature", "validation", "sync"} =>
               result'.status = "error"]_vars

\* a collaborator call of the per-item sync failed and the handler returned
\* an error result
C17_Witness ==
    /\ result.task = Webhook
    /\ result.cause = "sync"
    /\ result.status = "error"

\* the notification is not rejected by the signature check and reaches the
\* delete branch of _process_issue_webhook
ReachesDeleteBranch(payload, signature) ==
    /\ ~(Truthy(signature) /\ ~VerifySignature(signature))
    /\ payload.wellformed
    /\ payload.event = "issue"
    /\ payload.action = "delete"
    /\ get_calendar_for_project(payload.project) # NoCalendar

\* C18: handling a notification with action delete for an item of a mapped
\* project returns with no event of the item's identifier on the project's
\* calendar
C18_DeleteNotificationRemovesEvent ==
    [][\A payload \in Payloads, signature \in Signatures :
          ProcessWebhook(payload, signature) /\ ReachesDeleteBranch(payload, signature) =>
              /\ result'.task = Webhook
              /\ EventUid(payload.id) \notin
                     calendarEvents'[get_calendar_for_project(payload.project)]]_vars

\* C19: with a secret configured, a notification whose signature header is
\* not the HMAC-SHA256 digest of the payload returns an error result and starts
\* no calendar operation; with no secret configured no notification is
\* rejected for its signature
C19_BadSignatureRejected ==
    [][\A payload \in Payloads, signature \in Signatures :
          ProcessWebhook(payload, signature) =>
              /\ webhook_secret # None /\ signature # "matching" =>
                    /\ result' = [task |-> Webhook, status |-> "error",
                                  cause |-> "signature"]
                    /\ pc'[Webhook] = "idle"
                    /\ UNCHANGED calendarEvents
              /\ webhook_secret = None => result'.cause # "signature"]_vars

\* ------------------------------------------------------------- cache parity
\* in this step task t chose between create and update
Decides(t) == pc[t] # "write_event" /\ pc'[t] = "write_event"

\* the operation the direct fetch-and-scan chooses on the calendar as it is
DirectOperation(t) ==
    WriteOperation(DirectLookup(calendarEvents[local'[t].calendar],
                                EventUid(local'[t].issues[local'[t].k].id)))

\* the cache does not hold the calendar, or holds exactly the calendar's events
CacheAgrees(url) == IsCached(events_cache, url) => events_cache[url] = calendarEvents[url]

\* C20 as stated: for the same item and calendar state, the operation chosen
\* with use_cache=True is the one chosen with use_cache=False; the write that
\* follows is common to both, so the calendar ends in the same state
C20_SameOperationEitherWay ==
    [][\A t \in Tasks : Decides(t) => local'[t].op = DirectOperation(t)]_vars

\* C20 amended: the same, for a cache that is not loaded for the calendar or
\* agrees with the calendar
C20_SameOperationWhenCacheAgrees ==
    [][\A t \in Tasks :
          Decides(t) /\ CacheAgrees(local'[t].calendar) =>
              local'[t].op = DirectOperation(t)]_vars

\* with use_cache=True and the calendar in the cache, an update was chosen for
\* an event that is on the calendar
C20_Witness ==
    /\ pc[Caller] = "write_event"
    /\ local[Caller].use_cache
    /\ local[Caller].op = "update"
    /\ IsCached(events_cache, local[Caller].calendar)
    /\ EventUid(local[Caller].issues[1].id) \in calendarEvents[local[Caller].calendar]

\* ------------------------------------------------------------- mapper claims
\* the mapper was called on the issue and this is its outcome
Mapped == mapped.event.kind # "not called"

\* C21: plane_issue_to_caldav_event returns None exactly for the items whose
\* target_date is unset; every item with a target_date yields an event
C21_NoneIffNoDueDate ==
    Mapped =>
       /\ mapped.event.kind = "None" <=> mapped.issue.target_date = Absent
       /\ mapped.issue.target_date # Absent => mapped.event.kind = "event"

\* item n of the list task t reconciles has a due date and a completion instant
CompletedWithDueDate(t, n) ==
    /\ local[t].issues[n].issue.due
    /\ local[t].issues[n].issue.completed_at # Absent

Variants(issue) ==
    {[issue EXCEPT !.target_date = Some(d)] : d \in DateTimes}
    \cup {[issue EXCEPT !.start_date = d] : d \in OptionalDateTimes}
    \cup {[issue EXCEPT !.completed_at = d] : d \in OptionalDateTimes}
    \cup {[issue EXCEPT !.priority = p] : p \in {None, "high"}}
    \cup {[issue EXCEPT !.assignees = a] : a \in SeqsUpTo(Emails, 1)}

\* C23: the event identifier depends on the item id only, different ids give
\* different identifiers, and the mapper, the per-item sync, the delete diff
\* and the notification delete compute the same identifier for an item
C23_UidFunctionOfIdOnly ==
    mapped.event.kind = "event" =>
       /\ \A other \in Variants(mapped.issue) :
             plane_issue_to_caldav_event(other).kind = "event" =>
                plane_issue_to_caldav_event(other).uid = mapped.event.uid
       /\ \A id \in IssueIds \ {mapped.issue.id} :
             plane_issue_to_caldav_event([mapped.issue EXCEPT !.id = id]).uid
                 # mapped.event.uid
       /\ IssueEventUid(mapped.issue.id) = mapped.event.uid
       /\ CurrentIssueUid(mapped.issue.id) = mapped.event.uid
       /\ WebhookEventUid(mapped.issue.id) = mapped.event.uid

\* an event was mapped for a completed item with a start date and an assignee
C23_Witness ==
    /\ mapped.event.kind = "event"
    /\ mapped.issue.completed_at # Absent
    /\ mapped.issue.start_date # Absent
    /\ Len(mapped.issue.assignees) = 1

\* C24: the event of an item with a due date is all-day with both bounds at
\* midnight; it spans from the start date to the due date when the start is
\* set and precedes the due date, and is on the due date alone otherwise
C24_AllDaySpan ==
    (Mapped /\ mapped.issue.target_date # Absent) =>
       LET due == ValueOf(mapped.issue.target_date)
           spans == /\ mapped.issue.start_date # Absent
                    /\ Before(ValueOf(mapped.issue.start_date), due)
       IN  /\ mapped.event.kind = "event"
           /\ mapped.event.all_day
           /\ mapped.event.end = Some(DateTime(due.day, 0, FALSE))
           /\ mapped.event.start =
                 Some(DateTime(IF spans THEN ValueOf(mapped.issue.start_date).day
                               ELSE due.day, 0, FALSE))

\* the addresses of the assignees that have one, in assignee order, repeats kept
RECURSIVE NonEmptyAddresses(_)
NonEmptyAddresses(assignees) ==
    IF assignees = <<>> THEN <<>>
    ELSE (IF Head(assignees) = None \/ Head(assignees) = ""
          THEN <<>> ELSE <<Head(assignees)>>)
         \o NonEmptyAddresses(Tail(assignees))

\* C25: the attendees of the mapped event are the addresses of the assignees
\* that have a non-empty address, in assignee order and without deduplication
C25_AttendeesInAssigneeOrder ==
    mapped.event.kind = "event" =>
       mapped.event.attendees = NonEmptyAddresses(mapped.issue.assignees)

\* an assignee with an empty address between two assignees with the same address
C25_Witness ==
    /\ mapped.event.kind = "event"
    /\ mapped.issue.assignees = <<"a@example.org", "", "a@example.org">>
    /\ mapped.event.attendees = <<"a@example.org", "a@example.org">>

\* ------------------------------------------------------------- cache claims
\* every cached calendar is cached with exactly the events it holds
CacheEqualsCalendar ==
    \A url \in DOMAIN events_cache : events_cache[url] = calendarEvents[url]

\* task t resumed in this step from a create, update or delete it had issued
WriteReturned(t) ==
    /\ pc[t] \in {"delete_event", "delete_no_target_date", "write_event"}
    /\ local'[t] # local[t] \/ pc'[t] # pc[t]

\* C26: within a pass the cached identifier set of a calendar equals the
\* calendar's after every step; a write that failed leaves the cache as it
\* was, unless its exception ends the pass, which clears the cache
C26_CacheFollowsWrites ==
    [][/\ CacheEqualsCalendar'
       /\ \A t \in PassTasks :
             WriteReturned(t) /\ calendarEvents' = calendarEvents =>
                \/ events_cache' = events_cache
                \/ pc'[t] = "idle" /\ events_cache' = EmptyCache]_vars

\* a pass has deleted one event and created another, both reflected in the cache
C26_Witness ==
    \E t \in PassTasks :
       /\ Reconciling(t)
       /\ local[t].deleted = 1
       /\ IsCached(events_cache, local[t].calendar)
       /\ EventUid("i1") \in events_cache[local[t].calendar]
       /\ ForeignUid \notin events_cache[local[t].calendar]

\* ------------------------------------------------------------- per-item sync claims
\* the identifier of the item task t is syncing, and whether it is on the calendar
CurrentUid(t) == EventUid(local[t].issues[local[t].k].id)

OnCalendar(t) == CurrentUid(t) \in calendarEvents[local[t].calendar]

\* what the lookup of the step found: the cache entry as the step leaves it
\* when use_cache, the calendar otherwise
LookupFound(t) ==
    IF local'[t].use_cache
    THEN EventUid(local'[t].issues[local'[t].k].id) \in events_cache'[local'[t].calendar]
    ELSE EventUid(local'[t].issues[local'[t].k].id) \in calendarEvents[local'[t].calendar]

\* C27: per-item sync of an item with a due date issues one write, an update
\* when the lookup found the item's event and a create otherwise; when the
\* write returns the sync is over; a create is issued only for an identifier
\* that is not on the calendar and adds that one event, an update only for one
\* that is, so no identifier comes to be on a calendar twice
C27_OneWritePerItem ==
    [][\A t \in Tasks :
         /\ Decides(t) =>
               /\ local[t].op = None \/ pc[t] = "idle"
               /\ local'[t].op = IF LookupFound(t) THEN "update" ELSE "create"
         /\ pc'[t] = "write_event" =>
               /\ local'[t].issues[local'[t].k].issue.due
               /\ local'[t].op = "create" =>
                     EventUid(local'[t].issues[local'[t].k].id)
                         \notin calendarEvents'[local'[t].calendar]
               /\ local'[t].op = "update" =>
                     EventUid(local'[t].issues[local'[t].k].id)
                         \in calendarEvents'[local'[t].calendar]
         /\ (pc[t] = "write_event" /\ WriteReturned(t)) =>
               /\ pc'[t] = "idle"
               /\ calendarEvents'[local[t].calendar] \in
                     {calendarEvents[local[t].calendar],
                      calendarEvents[local[t].calendar] \cup {CurrentUid(t)}}
               /\ calendarEvents' # calendarEvents => local[t].op = "create"]_vars

\* a create was issued for an item whose event an earlier per-item sync had
\* removed again
C27_Witness ==
    /\ pc[Caller] = "write_event"
    /\ local[Caller].op = "create"
    /\ CurrentUid(Caller) = EventUid("i2")
    /\ ForeignUid \in calendarEvents[local[Caller].calendar]
    /\ ~OnCalendar(Caller)

\* ------------------------------------------------------------- failures in a reconcile
\* in this step a delete_event of the delete diff of task t raised
DeleteFailed(t) ==
    /\ pc[t] = "delete_event"
    /\ local'[t] # local[t] \/ pc'[t] # pc[t]
    /\ calendarEvents' = calendarEvents

\* task t is in the per-item sync of the first item of the list
AtFirstItem(t) ==
    /\ pc'[t] \in {"delete_no_target_date", "item_get_calendar_events", "write_event"}
    /\ local'[t].k = 1

\* C28: when a delete of the delete diff fails, the reconcile goes on with the
\* other events of the diff and then with the per-item sync from the first
\* item; the deleted count does not count the event and the cache keeps it
C28_DeleteFailureTolerated ==
    [][\A t \in PassTasks :
         DeleteFailed(t) =>
            LET remaining == local'[t].to_delete # {}
                goesOn == remaining \/ local[t].issues # <<>>
            IN  /\ result'.status # "error"
                /\ remaining => pc'[t] = "delete_event"
                /\ ~remaining /\ local[t].issues # <<>> => AtFirstItem(t)
                /\ goesOn =>
                      /\ local'[t].j = local[t].j
                      /\ local'[t].issues = local[t].issues
                      /\ local'[t].deleted = local[t].deleted
                      /\ events_cache' = events_cache
                      /\ \E uid \in local[t].to_delete :
                            /\ local'[t].to_delete = local[t].to_delete \ {uid}
                            /\ uid \in events_cache'[local[t].calendar]]_vars

\* of two events to delete the first delete failed and the second succeeded:
\* the first event is on the calendar and in the cache, the second is in
\* neither, one event is counted, and the first item is being written
C28_Witness ==
    \E t \in PassTasks :
       /\ pc[t] = "write_event"
       /\ local[t].k = 1
       /\ local[t].failed
       /\ local[t].deleted = 1
       /\ ForeignUid \in calendarEvents[local[t].calendar]
       /\ ForeignUid \in events_cache[local[t].calendar]
       /\ EventUid("i2") \notin calendarEvents[local[t].calendar]
       /\ EventUid("i2") \notin events_cache[local[t].calendar]

\* the reconcile task t is in has issued no delete and started no per-item sync
NothingWritten(t) ==
    /\ local[t].to_delete = {}
    /\ local[t].deleted = 0
    /\ local[t].k = 0
    /\ local[t].op = None

\* C29: when the fetch of the item list or of the event list of a project
\* fails, no write of that reconcile has been issued, the pass ends with the
\* error at its caller, and no further project is reconciled
C29_FetchFailureEndsCycle ==
    [][\A t \in PassTasks :
         GetProjectIssues(t, TRUE) \/ GetCalendarEvents(t, TRUE) =>
            /\ NothingWritten(t)
            /\ calendarEvents' = calendarEvents
            /\ pc'[t] = "idle"
            /\ result' = [task |-> t, status |-> "error", cause |-> "fetch"]
            /\ project_mappings' = project_mappings]_vars

\* a pass ended by a failed fetch in its first project: neither that project
\* nor the one after it has been reconciled
C29_Witness ==
    /\ result.status = "error"
    /\ result.cause = "fetch"
    /\ Len(project_mappings) = 2
    /\ \A j \in 1..2 : project_mappings[j].last_sync = Absent
    /\ \A t \in PassTasks : pc[t] = "idle"

\* ------------------------------------------------------------- failures in a per-item sync
\* this step ends a call of sync_issue_to_calendar by task t with a normal
\* return although its last collaborator call wrote nothing
ReturnedWithoutWrite(t) ==
    /\ pc[t] \in {"delete_no_target_date", "item_get_calendar_events",
                  "direct_get_calendar_events"}
    /\ pc'[t] = "idle"
    /\ result'.status = "returned"
    /\ calendarEvents' = calendarEvents

\* C30: a call of sync_issue_to_calendar returns normally without a write only
\* when the delete for an item without a due date found no event; any other
\* failure of a collaborator, a transient failure of that delete included,
\* reaches the caller as an exception
C30_OnlyNotFoundIsSwallowed ==
    [][ReturnedWithoutWrite(Caller) =>
          /\ pc[Caller] = "delete_no_target_date"
          /\ IssueEventUid(local[Caller].issues[local[Caller].k].id)
                \notin calendarEvents[local[Caller].calendar]]_vars

\* ------------------------------------------------------------- the full reconciliation
\* in this step task t enters sync_all_projects and is not skipped
EntersSyncAllProjects(t) ==
    /\ pc[t] = "idle"
    /\ pc'[t] # "idle"
    /\ local'[t].entry = "sync_all_projects"

\* C31: every sync_all_projects that is not skipped runs
\* initialize_project_mappings before it reconciles a project
C31_FullSyncInitializesRegistry ==
    [][\A t \in {CleanupJob, Manual} :
         EntersSyncAllProjects(t) => pc'[t] = "get_projects"]_vars

\* ------------------------------------------------------------- one list call per calendar
\* in this step a pass ends
PassEnds == \E t \in PassTasks : pc[t] # "idle" /\ pc'[t] = "idle"

\* C32: within a pass the event list of a calendar is asked for only while
\* the calendar has no cache entry, a returned list becomes the entry, entries
\* stay until the pass ends, and no per-item sync of a pass asks for the list
C32_OneListCallPerCalendar ==
    [][/\ \A t \in PassTasks :
            /\ pc'[t] \notin {"item_get_calendar_events", "direct_get_calendar_events"}
            /\ pc[t] # "get_calendar_events" /\ pc'[t] = "get_calendar_events" =>
                  local'[t].calendar \notin DOMAIN events_cache'
            /\ pc[t] = "get_calendar_events" /\ pc'[t] # "idle" /\ local'[t] # local[t] =>
                  local[t].calendar \in DOMAIN events_cache'
       /\ \A url \in DOMAIN events_cache :
            url \notin DOMAIN events_cache' => PassEnds]_vars

\* the list call for the second project's calendar is in flight while the
\* first project's calendar is cached: two calendars, one list call each
C32_Witness ==
    \E t \in PassTasks :
       /\ pc[t] = "get_calendar_events"
       /\ local[t].j = 2
       /\ project_mappings[1].calendar # local[t].calendar
       /\ DOMAIN events_cache = {project_mappings[1].calendar}

\* ------------------------------------------------------------- the watermark on disk
\* the file holds a JSON object whose last_sync_time is an ISO text
Readable(file) ==
    /\ file # Absent
    /\ ValueOf(file).json
    /\ ValueOf(file).has_key
    /\ Len(ValueOf(file).last_sync_time) > 0

\* C33: what a save wrote is loaded back as the instant that was saved, and
\* loading an absent or unreadable file gives now - 24 hours
C33_SaveThenLoadIsIdentity ==
    [][/\ state_file' # state_file /\ Readable(state_file') =>
            \A clock \in Instants : LoadStateFile(state_file', clock) = last_sync_time'
       /\ ProcessStart /\ ~Readable(state_file) =>
            /\ last_sync_time'.hours = now.hours - 24
            /\ last_sync_time'.microsecond = now.microsecond]_vars

\* a watermark with a sub-second part was saved at an earlier instant and is
\* what the service holds now
C33_Witness ==
    /\ Readable(state_file)
    /\ last_sync_time.microsecond # 0
    /\ ValueOf(state_file).last_sync_time = <<last_sync_time.hours, last_sync_time.microsecond>>
    /\ ValueOf(state_file).updated_at # ValueOf(state_file).last_sync_time
    /\ Later(now, last_sync_time)

\* ------------------------------------------------------------- invalid notifications
\* C34: a notification whose payload fails validation returns an error result
\* at once: no calendar operation is started and the calendars, the registry,
\* the event mappings and the event cache are as they were
C34_InvalidPayloadNotProcessed ==
    [][\A payload \in {p \in Payloads : ~p.wellformed}, signature \in Signatures :
          ProcessWebhook(payload, signature) =>
              /\ result'.task = Webhook
              /\ result'.status = "error"
              /\ pc'[Webhook] = "idle"
              /\ UNCHANGED <<serverCalendars, calendarEvents, project_mappings,
                             event_mappings, events_cache>>]_vars

\* an invalid payload was turned down while the project was mapped, its
\* calendar cached and a pass at work
C34_Witness ==
    /\ result.task = Webhook
    /\ result.cause = "validation"
    /\ result.status = "error"
    /\ get_calendar_for_project("p1") # NoCalendar
    /\ IsCached(events_cache, get_calendar_for_project("p1"))
    /\ pc[CleanupJob] # "idle"

\* ------------------------------------------------------------- convergence
\* The two scheduled jobs with a fair scheduler: a collaborator call that a job
\* is suspended in returns or raises, and the interval trigger of the sync job
\* fires again and again. The first item has a target_date (a naive datetime)
\* and no start_date, a naive start_date or an aware one.
ConvergeInit ==
    /\ InitProgram
    /\ webhook_secret = None
    /\ trackerProjects = <<Project("p1", Web), Project("p2", WEB)>>
    /\ \E first \in {Issue("p1", TRUE),
                      StartedIssue("p1", Some(DateTime(1, 12, FALSE))),
                      StartedIssue("p1", Some(DateTime(1, 12, TRUE)))} :
          trackerIssues = [n \in IssueIds |-> IF n = "i1" THEN first ELSE Issue("p1", FALSE)]
    /\ InitServer

ConvergeSpec ==
    /\ ConvergeInit
    /\ [][JobsNext]_vars
    /\ \A t \in {SyncJob, CleanupJob} : WF_vars(PassStep(t))
    /\ WF_vars(StartSyncUpdatedIssues)

\* in this step a collaborator call failed: an exception ended a pass, a
\* delete of an event that is on the calendar was passed over, or the calendar
\* listing came back empty although the server has calendars
CollaboratorFailure ==
    \/ result'.status = "error" /\ result'.cause # "mapper"
    \/ \E t \in {SyncJob, CleanupJob} :
          /\ local'[t] # local[t] \/ pc'[t] # pc[t]
          /\ \/ /\ pc[t] = "delete_event"
                /\ calendarEvents' = calendarEvents
                /\ local[t].to_delete \cap calendarEvents[local[t].calendar] # {}
             \/ /\ pc[t] = "delete_no_target_date"
                /\ calendarEvents' = calendarEvents
                /\ IssueEventUid(local[t].issues[local[t].k].id)
                      \in calendarEvents[local[t].calendar]
             \/ /\ pc[t] = "get_calendars"
                /\ pc'[t] = "create_calendar"
                /\ local'[t].calendars = <<>>
                /\ ListedCalendars # <<>>

\* a pass has just completed and every mapped calendar holds exactly the
\* events of its project's items that have a due date
Converged ==
    /\ result.status = "success"
    /\ result.cause = None
    /\ \A n \in 1..Len(project_mappings) :
          calendarEvents[project_mappings[n].calendar]
             = ExpectedEvents(IssuesOf(project_mappings[n].project))

\* the mapper returns for every item of the tracker
MapperReturns ==
    \A n \in DOMAIN trackerIssues :
       plane_issue_to_caldav_event(
           AsPlaneIssue([id |-> n, issue |-> trackerIssues[n]])).kind # "TypeError"

\* the same convergence for tracker data on which the mapper returns
ConvergesWhenMapperReturns ==
    MapperReturns /\ <>[][~CollaboratorFailure]_vars => []<>Converged

\* C35: with the tracker data fixed, once collaborator calls no longer fail a
\* pass completes that leaves every mapped calendar with exactly one event per
\* item with a due date, and this recurs with every later pass
C35_EventuallyConsistent ==
    <>[][~CollaboratorFailure]_vars => []<>Converged

\* ------------------------------------------------------------- the cache under interleaving
\* C36: under every interleaving of per-item syncs of notifications with a
\* pass, with no other writer, each cached calendar is cached with exactly the
\* events it holds
C36_CacheConsistentUnderInterleaving ==
    \A url \in DOMAIN events_cache :
       /\ events_cache[url] \subseteq calendarEvents[url]
       /\ calendarEvents[url] \subseteq events_cache[url]

\* ------------------------------------------------------------- unsigned notifications
\* C37: with a secret configured, a notification that carries no signature
\* header is rejected: it returns the signature error and starts no calendar
\* operation
C37_UnsignedNotificationRejected ==
    [][\A payload \in Payloads :
          ProcessWebhook(payload, None) /\ webhook_secret # None =>
              /\ result' = [task |-> Webhook, status |-> "error", cause |-> "signature"]
              /\ pc'[Webhook] = "idle"
              /\ UNCHANGED calendarEvents]_vars

\* ------------------------------------------------------------- the registry and the tracker
\* C38: when initialize_project_mappings has completed, the project ids of the
\* registry are exactly the ids of the projects the tracker reported to it
C38_RegistryEqualsTrackerProjects ==
    [][\A t \in PassTasks :
         InInit(t) /\ ~InInit(t)' /\ result'.cause # "init" =>
            {project_mappings'[n].project : n \in 1..Len(project_mappings')}
               = {local[t].projects[n].id : n \in 1..Len(local[t].projects)}]_vars

\* ------------------------------------------------------------- writers of the registry
\* C39: the registry changes only in a step of a pass that holds the busy
\* flag, while every other entry point is idle: no pass iterates the registry
\* while another execution changes it
C39_RegistryChangedUnderBusyFlag ==
    [][project_mappings' # project_mappings =>
          /\ sync_in_progress
          /\ \E t \in PassTasks :
                /\ pc[t] # "idle"
                /\ pc'[t] # pc[t] \/ local'[t] # local[t]
                /\ \A other \in PassTasks \ {t} :
                      pc[other] = "idle" /\ pc'[other] = "idle"]_vars

\* a pass that holds the flag has initialized the registry, stamped the first
\* project and is iterating the second
C39_Witness ==
    \E t \in PassTasks :
       /\ sync_in_progress
       /\ pc[t] = "get_project_issues"
       /\ local[t].j = 2
       /\ Len(project_mappings) = 2
       /\ project_mappings[1].last_sync # Absent
       /\ project_mappings[2].last_sync = Absent

\* ------------------------------------------------------------- foreign events
\* C40: a pass never deletes an event whose identifier is not of the form
\* plane-issue-<id>@<app>: such an event stays on its calendar
C40_ForeignEventsKept ==
    [][\A url \in CalendarUrls :
          ForeignUid \in calendarEvents[url] => ForeignUid \in calendarEvents'[url]]_vars
====
